---- MODULE Spec2Model ----
(***************************************************************************)
(* A model of yaml-peg: the PEG parser (src/src/parser/mod.rs) and the     *)
(* Node data model (src/src/node.rs).                                      *)
(*                                                                         *)
(* A document is a sequence of bytes, each byte a one-character string;    *)
(* the two-byte character U+00E9 is the pair <<"C3", "A9">>.  Offsets are  *)
(* 0-based byte offsets as in the Rust code, so the byte at offset p is    *)
(* doc[p + 1].                                                             *)
(***************************************************************************)
EXTENDS Integers, Sequences, FiniteSets, TLC

VARIABLES
    doc,        \* Parser.doc
    pos,        \* Parser.pos
    eaten,      \* Parser.eaten
    pc,         \* where parse stands: new, ready, doc, loop, done
    v,          \* the documents full_doc has collected
    ret,        \* what parse returned
    rec,        \* the offset the last call of scalar recorded in `pos`
    cursor_arg, \* the argument with_cursor was called with, -1 if it was not
    call        \* the last call made on a Node, with its arguments and result

vars == <<doc, pos, eaten, pc, v, ret, rec, cursor_arg, call>>

parserVars == <<doc, pos, eaten, pc, v, ret, rec, cursor_arg>>

(***************************************************************************)
(* Bounds.                                                                 *)
(***************************************************************************)
\* longest generated input, in characters
MaxLen == 4

\* longest generated input of FairSpec, the specification with fairness
MaxLiveLen == 3

\* largest source offset given to a hand-built node
MaxPos == 2

\* longest key chain handed to as_get / except_get
MaxKeys == 3

\* largest usize handed to Index<usize>
MaxIndex == 2

\* most nodes inserted into one HashSet
MaxIns == 3

\* longest chain of indexing operations n[i][j]...
MaxChain == 3

(***************************************************************************)
(* Bytes and characters.                                                   *)
(***************************************************************************)
NL == "\n"

QUOTE == "\""

BSLASH == "\\"

\* lead and continuation byte of the two-byte character U+00E9
LeadByte == "C3"

ContByte == "A9"

WS == {" ", NL}

Digits == {"0", "1", "2", "3", "4", "5", "6", "7", "8", "9"}

Letters == {"a", "b", "c", "d", "e", "f", "i", "l", "n", "r", "s", "t", "u", "x"}

\* characters a name or a plain (unquoted) string is made of
WordChars == Letters \cup Digits \cup {LeadByte}

\* the lead bytes of every character an input can hold
AllChars == WordChars \cup WS \cup {"-", ".", "~", QUOTE, "&", "!", "*", "#", BSLASH}

\* number of bytes of the character whose first byte is b
CharLen(b) == IF b = LeadByte THEN 2 ELSE 1

\* UTF-8 encoding of a sequence of characters
RECURSIVE Encode(_)
Encode(cs) ==
    IF cs = <<>> THEN <<>>
    ELSE (IF Head(cs) = LeadByte THEN <<LeadByte, ContByte>> ELSE <<Head(cs)>>)
         \o Encode(Tail(cs))

\* characters the generated inputs are drawn from
GenChars == {"-", ".", "~", "1", " ", QUOTE, "a", LeadByte}

GenInputs(max) == UNION {{Encode(cs) : cs \in [1..n -> GenChars]} : n \in 0..max}

ConcreteInputs ==
    { <<"t","r","u","e">>,
      <<"f","a","l","s","e">>,
      <<"n","u","l","l">>,
      <<"t","r","u","e","-","-","-">>,
      <<"t","r","u","e",NL,"-","-","-",NL>>,
      <<"t","r","u","e",NL,"-","-","-",NL,"f","a","l","s","e">>,
      <<"t","r","u","e",".",".",".",NL,"-","-","-"," ","~">>,
      <<"-","-","-",NL,"n","u","l","l",NL>>,
      <<"t","r","u","e"," ","x">>,
      <<"&","a"," ","!","!","t"," ","b"," "," ","c">>,
      <<"&","a"," ","!","!","t"," ">>,
      <<"&","a"," ",QUOTE,"b">>,
      <<"#","a",NL,"1",".","5">>,
      <<"-",".","i","n","f">>,
      <<".","n","a","n">>,
      <<"*","a">>,
      <<QUOTE,"a"," "," ","b",QUOTE>>,
      <<QUOTE,"a",BSLASH,"n",QUOTE>>,
      <<"1","2","3">> }

Inputs == GenInputs(MaxLen) \cup ConcreteInputs

LiveInputs == GenInputs(MaxLiveLen) \cup ConcreteInputs

(***************************************************************************)
(* The value model: Yaml and Node.  Text is a sequence of characters.      *)
(***************************************************************************)
Y(k, b, s, items) == [k |-> k, b |-> b, s |-> s, items |-> items]

YNull == Y("Null", FALSE, <<>>, <<>>)

YBool(b) == Y("Bool", b, <<>>, <<>>)

YInt(s) == Y("Int", FALSE, s, <<>>)

YFloat(s) == Y("Float", FALSE, s, <<>>)

YStr(s) == Y("Str", FALSE, s, <<>>)

YAnchor(s) == Y("Anchor", FALSE, s, <<>>)

\* items: the nodes of the array, in order
YArray(items) == Y("Array", FALSE, <<>>, items)

\* items: the <<key node, value node>> pairs of the map, in insertion order
YMap(items) == Y("Map", FALSE, <<>>, items)

\* node!(yaml, pos, anchor, ty)
mkNode(yaml, p, anchor, ty) == [pos |-> p, ty |-> ty, anchor |-> anchor, yaml |-> yaml]

\* Node::new
Node_new(yaml) == mkNode(yaml, 0, <<>>, <<>>)

\* the builders Node::pos, Node::ty, Node::anchor
Node_pos(n, p) == [n EXCEPT !.pos = p]

Node_ty(n, ty) == [n EXCEPT !.ty = ty]

Node_anchor(n, anchor) == [n EXCEPT !.anchor = anchor]

(***************************************************************************)
(* The cursor layer.  A parser state P is [pos, eaten]; a matcher returns  *)
(* [ok, p, txt, flag]: whether it matched, the parser state it leaves, and *)
(* the text or boolean it yields.  A matcher that fails leaves the cursor  *)
(* where it found it.                                                      *)
(***************************************************************************)
PState(p, e) == [pos |-> p, eaten |-> e]

Matched(P) == [ok |-> TRUE, p |-> P, txt |-> <<>>, flag |-> FALSE]

Mismatch(P) == [ok |-> FALSE, p |-> P, txt |-> <<>>, flag |-> FALSE]

\* Result::unwrap_or_default on a matcher's result: the state it left
Opt(r) == r.p

\* the unconsumed tail of the source
food(P) == SubSeq(doc, P.pos + 1, Len(doc))

\* the text between the commit offset and the cursor; the commit offset
\* moves to the cursor
eat(P) ==
    [ok |-> TRUE, p |-> PState(P.pos, P.pos),
     txt |-> IF P.eaten < P.pos THEN SubSeq(doc, P.eaten + 1, P.pos) ELSE <<>>,
     flag |-> FALSE]

\* the offset of the first character at or after p that is not in S
RECURSIVE Scan(_, _)
Scan(p, S) ==
    IF p < Len(doc) /\ doc[p + 1] \in S
    THEN Scan(p + CharLen(doc[p + 1]), S)
    ELSE p

\* zero or more / one or more characters of S
take_while(P, S, opt) ==
    LET q == Scan(P.pos, S)
    IN  IF q = P.pos /\ opt = "OneMore"
        THEN Mismatch(P)
        ELSE Matched([P EXCEPT !.pos = q])

\* one byte
sym(P, b) ==
    IF P.pos < Len(doc) /\ doc[P.pos + 1] = b
    THEN Matched([P EXCEPT !.pos = @ + 1])
    ELSE Mismatch(P)

\* a literal byte sequence
seq(P, bs) ==
    IF P.pos + Len(bs) <= Len(doc) /\ SubSeq(doc, P.pos + 1, P.pos + Len(bs)) = bs
    THEN Matched([P EXCEPT !.pos = @ + Len(bs)])
    ELSE Mismatch(P)

\* invisible characters (the separator run)
inv(P, opt) == take_while(P, WS, opt)

\* the offset after the white space and `#` comments that start at p
RECURSIVE GapEnd(_)
GapEnd(p) ==
    IF p < Len(doc) /\ doc[p + 1] \in WS THEN GapEnd(p + 1)
    ELSE IF p < Len(doc) /\ doc[p + 1] = "#" THEN GapEnd(Scan(p, AllChars \ {NL}))
    ELSE p

\* ignorable content: white space and comments
gap(P) == Matched([P EXCEPT !.pos = GapEnd(P.pos)])

\* token(rule) at P, r being what the rule returns at P: commit and yield the
\* captured text when the rule matches, change nothing when it does not
token(P, r) == IF r.ok THEN eat(r.p) ELSE Mismatch(P)

(***************************************************************************)
(* The grammar of the scalar alternatives.                                 *)
(***************************************************************************)
\* `&name`, and the white space after it
anchor(P) ==
    LET a == sym(P, "&")
        w == take_while(a.p, WordChars, "OneMore")
    IN  IF a.ok /\ w.ok THEN inv(w.p, "ZeroMore") ELSE Mismatch(P)

\* `!tag` or `!!tag`, and the white space after it
ty(P) ==
    LET a == sym(P, "!")
        b == sym(a.p, "!")
        w == take_while(Opt(b), WordChars, "OneMore")
    IN  IF a.ok /\ w.ok THEN inv(w.p, "ZeroMore") ELSE Mismatch(P)

\* an optional sign and one or more digits
int(P) ==
    LET s == sym(P, "-")
        d == take_while(Opt(s), Digits, "OneMore")
    IN  IF d.ok THEN d ELSE Mismatch(P)

\* an integer, a point and zero or more digits
float(P) ==
    LET i == int(P)
        d == sym(i.p, ".")
    IN  IF i.ok /\ d.ok THEN take_while(d.p, Digits, "ZeroMore") ELSE Mismatch(P)

nan(P) == seq(P, <<".", "n", "a", "n">>)

\* flag: TRUE for +inf, FALSE for -inf
inf(P) ==
    LET s == sym(P, "-")
        m == seq(Opt(s), <<".", "i", "n", "f">>)
    IN  IF m.ok THEN [m EXCEPT !.flag = ~s.ok] ELSE Mismatch(P)

\* the end of a plain string that starts at p: words separated by blanks
RECURSIVE PlainEnd(_)
PlainEnd(p) ==
    LET q == Scan(p, WordChars)
        w == Scan(q, {" "})
    IN  IF q > p /\ w > q /\ w < Len(doc) /\ doc[w + 1] \in WordChars
        THEN PlainEnd(w)
        ELSE q

\* a quoted string (yielding the text between the quotes) or a plain string
string_flow(P) ==
    LET o == sym(P, QUOTE)
        c == take_while(o.p, AllChars \ {QUOTE}, "ZeroMore")
        e == sym(c.p, QUOTE)
        q == PlainEnd(P.pos)
    IN  IF o.ok
        THEN IF e.ok
             THEN [Matched(e.p) EXCEPT !.txt = SubSeq(doc, o.p.pos + 1, c.p.pos)]
             ELSE Mismatch(P)
        ELSE IF q > P.pos
             THEN [Matched([P EXCEPT !.pos = q]) EXCEPT !.txt = SubSeq(doc, P.pos + 1, q)]
             ELSE Mismatch(P)

\* `*name`
anchor_use(P) ==
    LET a == sym(P, "*")
        w == take_while(a.p, WordChars, "OneMore")
    IN  IF a.ok /\ w.ok THEN w ELSE Mismatch(P)

\* every run of white space becomes one blank
RECURSIVE merge_ws(_)
merge_ws(s) ==
    IF s = <<>> THEN <<>>
    ELSE IF Head(s) \in WS
         THEN IF Len(s) > 1 /\ s[2] \in WS
              THEN merge_ws(Tail(s))
              ELSE <<" ">> \o merge_ws(Tail(s))
         ELSE <<Head(s)>> \o merge_ws(Tail(s))

\* backslash escapes: `\n` is a newline, `\x` is x
RECURSIVE escape(_)
escape(s) ==
    IF s = <<>> THEN <<>>
    ELSE IF Head(s) = BSLASH /\ Len(s) > 1
         THEN <<IF s[2] = "n" THEN NL ELSE s[2]>> \o escape(Tail(Tail(s)))
         ELSE <<Head(s)>> \o escape(Tail(s))

(***************************************************************************)
(* Parser::scalar, Parser::doc (src/src/parser/mod.rs).  They return       *)
(* [ok, p, node, off, tag, rec]: Ok(node) or Err(Terminate(off, tag)), the *)
(* parser state they leave, and the offset scalar recorded in its local    *)
(* `pos`.                                                                  *)
(***************************************************************************)
NoNode == mkNode(YNull, 0, <<>>, <<>>)

Parsed(P, node, r) == [ok |-> TRUE, p |-> P, node |-> node, off |-> 0, tag |-> "", rec |-> r]

Terminate(P, off, tag, r) ==
    [ok |-> FALSE, p |-> P, node |-> NoNode, off |-> off, tag |-> tag, rec |-> r]

\* the value of the one-element set S: S is {e}, and `x \in {e}` binds x to
\* the value of e, as a `let` of the code binds a local
The(S) == CHOOSE x \in S : TRUE

\* scalar, as a scalar that tries the string grammar before the literals
\* would have it
scalar_StringFirst(P) ==
    The({ The({ The({
        LET at == P0.pos
            Done(yaml, Q) == Parsed(eat(Q).p, mkNode(yaml, at, a.txt, t.txt), at)
        IN
        The({ IF r9.ok THEN Done(YStr(escape(merge_ws(r9.txt))), r9.p) ELSE
        The({ IF r1.ok THEN Done(YNull, r1.p) ELSE
        The({ IF r2.ok THEN Done(YNull, r2.p) ELSE
        The({ IF r3.ok THEN Done(YBool(TRUE), r3.p) ELSE
        The({ IF r4.ok THEN Done(YBool(FALSE), r4.p) ELSE
        The({ IF r5.ok THEN Done(YFloat(eat(r5.p).txt), eat(r5.p).p) ELSE
        The({ IF r6.ok THEN Done(YFloat(<<"N", "a", "N">>), r6.p) ELSE
        The({ IF r7.ok
              THEN IF r7.flag
                   THEN Done(YFloat(<<"i", "n", "f">>), r7.p)
                   ELSE Done(YFloat(<<"-", "i", "n", "f">>), r7.p)
              ELSE
        The({ IF r8.ok THEN Done(YInt(eat(r8.p).txt), eat(r8.p).p) ELSE
        The({ IF r10.ok THEN Done(YAnchor(eat(r10.p).txt), eat(r10.p).p) ELSE
              Terminate(r10.p, r10.p.pos, "value", at)
        : r10 \in {anchor_use(r8.p)} })
        : r8 \in {int(r7.p)} })
        : r7 \in {inf(r6.p)} })
        : r6 \in {nan(r5.p)} })
        : r5 \in {float(r4.p)} })
        : r4 \in {seq(r3.p, <<"f", "a", "l", "s", "e">>)} })
        : r3 \in {seq(r2.p, <<"t", "r", "u", "e">>)} })
        : r2 \in {seq(r1.p, <<"n", "u", "l", "l">>)} })
        : r1 \in {sym(r9.p, "~")} })
        : r9 \in {string_flow(P0)} })
    : P0 \in {Opt(t)} })
    : t \in {token(Opt(a), ty(Opt(a)))} })
    : a \in {token(P, anchor(P))} })

\* scalar, as a scalar that reports the offset it was entered at would have
\* it
scalar_EntryOffset(P) ==
    The({ The({ The({
        LET at == P0.pos
            Done(yaml, Q) == Parsed(eat(Q).p, mkNode(yaml, at, a.txt, t.txt), at)
        IN
        The({ IF r1.ok THEN Done(YNull, r1.p) ELSE
        The({ IF r2.ok THEN Done(YNull, r2.p) ELSE
        The({ IF r3.ok THEN Done(YBool(TRUE), r3.p) ELSE
        The({ IF r4.ok THEN Done(YBool(FALSE), r4.p) ELSE
        The({ IF r5.ok THEN Done(YFloat(eat(r5.p).txt), eat(r5.p).p) ELSE
        The({ IF r6.ok THEN Done(YFloat(<<"N", "a", "N">>), r6.p) ELSE
        The({ IF r7.ok
              THEN IF r7.flag
                   THEN Done(YFloat(<<"i", "n", "f">>), r7.p)
                   ELSE Done(YFloat(<<"-", "i", "n", "f">>), r7.p)
              ELSE
        The({ IF r8.ok THEN Done(YInt(eat(r8.p).txt), eat(r8.p).p) ELSE
        The({ IF r9.ok THEN Done(YStr(escape(merge_ws(r9.txt))), r9.p) ELSE
        The({ IF r10.ok THEN Done(YAnchor(eat(r10.p).txt), eat(r10.p).p) ELSE
              Terminate(r10.p, P.pos, "value", at)
        : r10 \in {anchor_use(r9.p)} })
        : r9 \in {string_flow(r8.p)} })
        : r8 \in {int(r7.p)} })
        : r7 \in {inf(r6.p)} })
        : r6 \in {nan(r5.p)} })
        : r5 \in {float(r4.p)} })
        : r4 \in {seq(r3.p, <<"f", "a", "l", "s", "e">>)} })
        : r3 \in {seq(r2.p, <<"t", "r", "u", "e">>)} })
        : r2 \in {seq(r1.p, <<"n", "u", "l", "l">>)} })
        : r1 \in {sym(P0, "~")} })
    : P0 \in {Opt(t)} })
    : t \in {token(Opt(a), ty(Opt(a)))} })
    : a \in {token(P, anchor(P))} })

\* Parser::scalar
scalar(P) ==
    The({ The({ The({
        LET at == P0.pos
            \* self.eat(); Ok(node!(yaml, pos, anchor, ty))
            Done(yaml, Q) == Parsed(eat(Q).p, mkNode(yaml, at, a.txt, t.txt), at)
        IN
        The({ IF r1.ok THEN Done(YNull, r1.p) ELSE
        The({ IF r2.ok THEN Done(YNull, r2.p) ELSE
        The({ IF r3.ok THEN Done(YBool(TRUE), r3.p) ELSE
        The({ IF r4.ok THEN Done(YBool(FALSE), r4.p) ELSE
        The({ IF r5.ok THEN Done(YFloat(eat(r5.p).txt), eat(r5.p).p) ELSE
        The({ IF r6.ok THEN Done(YFloat(<<"N", "a", "N">>), r6.p) ELSE
        The({ IF r7.ok
              THEN IF r7.flag
                   THEN Done(YFloat(<<"i", "n", "f">>), r7.p)
                   ELSE Done(YFloat(<<"-", "i", "n", "f">>), r7.p)
              ELSE
        The({ IF r8.ok THEN Done(YInt(eat(r8.p).txt), eat(r8.p).p) ELSE
        The({ IF r9.ok THEN Done(YStr(escape(merge_ws(r9.txt))), r9.p) ELSE
        The({ IF r10.ok THEN Done(YAnchor(eat(r10.p).txt), eat(r10.p).p) ELSE
              Terminate(r10.p, r10.p.pos, "value", at)
        : r10 \in {anchor_use(r9.p)} })
        : r9 \in {string_flow(r8.p)} })
        : r8 \in {int(r7.p)} })
        : r7 \in {inf(r6.p)} })
        : r6 \in {nan(r5.p)} })
        : r5 \in {float(r4.p)} })
        : r4 \in {seq(r3.p, <<"f", "a", "l", "s", "e">>)} })
        : r3 \in {seq(r2.p, <<"t", "r", "u", "e">>)} })
        : r2 \in {seq(r1.p, <<"n", "u", "l", "l">>)} })
        : r1 \in {sym(P0, "~")} })
    : P0 \in {Opt(t)} })
    : t \in {token(Opt(a), ty(Opt(a)))} })
    : a \in {token(P, anchor(P))} })

docRule(P) ==
    The({ IF r.ok
          THEN [r EXCEPT !.p = eat(Opt(seq(r.p, <<".", ".", ".">>))).p]
          ELSE r
        : r \in {scalar(P)} })

(***************************************************************************)
(* The parser as a state machine: Parser::new, with_cursor, and parse,     *)
(* which is full_doc statement by statement.                               *)
(***************************************************************************)
\* what an accessor returns: None, Some or Ok of a value, Err(message), or
\* a panic
Out(tag) == [tag |-> tag, node |-> NoNode, num |-> 0, b |-> FALSE, arr |-> <<>>,
             fl |-> <<>>, msg |-> ""]

None == Out("None")

Panic == Out("Panic")

SomeNode(n) == [Out("Some") EXCEPT !.node = n]

OkNode(n) == [Out("Ok") EXCEPT !.node = n]

Err(e) == [Out("Err") EXCEPT !.msg = e]

\* a call on a Node: the operation, its receiver and arguments, its result
Call(op, n, o) ==
    [op |-> op, n |-> n, m |-> NoNode, keys |-> <<>>, ixs |-> <<>>, ns |-> <<>>,
     N |-> "", e |-> "", out |-> o, outn |-> NoNode, set |-> <<>>,
     h1 |-> <<>>, h2 |-> <<>>]

NoCall == Call("none", NoNode, None)

NoRet == [kind |-> "none", docs |-> <<>>, off |-> 0, tag |-> ""]

RetOk(docs) == [kind |-> "Ok", docs |-> docs, off |-> 0, tag |-> ""]

RetErr(off, tag) == [kind |-> "Err", docs |-> <<>>, off |-> off, tag |-> tag]

\* str::is_char_boundary
is_char_boundary(p) ==
    \/ p = 0
    \/ p = Len(doc)
    \/ p < Len(doc) /\ doc[p + 1] # ContByte

\* Parser::new(doc), for a doc of the set S
InitWith(S) ==
    /\ doc \in S
    /\ pos = 0
    /\ eaten = 0
    /\ pc = "new"
    /\ v = <<>>
    /\ ret = NoRet
    /\ rec = 0
    /\ cursor_arg = -1
    /\ call = NoCall

Init == InitWith(Inputs)

\* with_cursor, as a with_cursor that does not check the offset would have it
with_cursor_Unchecked(p) == PState(p, p)

\* the state with_cursor(p) leaves
with_cursor(p) ==
    IF is_char_boundary(p) THEN PState(p, p) ELSE PState(pos, eaten)

WithCursor ==
    /\ pc = "new"
    /\ \E p \in 0..(Len(doc) + 1) :
          /\ pos' = with_cursor(p).pos
          /\ eaten' = with_cursor(p).eaten
          /\ cursor_arg' = p
    /\ pc' = "ready"
    /\ UNCHANGED <<doc, v, ret, rec, call>>

\* full_doc up to `let mut v = vec![]`
Prefix ==
    /\ pc \in {"new", "ready"}
    /\ LET a == Opt(inv(PState(pos, eaten), "ZeroMore"))
           b == Opt(seq(a, <<"-", "-", "-">>))
           c == Opt(gap(b))
           d == eat(c).p
       IN  /\ pos' = d.pos
           /\ eaten' = d.eaten
    /\ v' = <<>>
    /\ pc' = "doc"
    /\ UNCHANGED <<doc, ret, rec, cursor_arg, call>>

\* v.push(self.doc()?) and the `ch` that follows it
Doc ==
    /\ pc = "doc"
    /\ \E r \in {docRule(PState(pos, eaten))} :
           /\ pos' = r.p.pos
           /\ eaten' = r.p.eaten
           /\ rec' = r.rec
           /\ IF r.ok
              THEN /\ v' = Append(v, r.node)
                   /\ pc' = "loop"
                   /\ ret' = ret
              ELSE /\ v' = v
                   /\ pc' = "done"
                   /\ ret' = RetErr(r.off, r.tag)
    /\ UNCHANGED <<doc, cursor_arg, call>>

\* `while let Some((i, _)) = ch.next()` finds nothing left: Ok(v)
LoopExit ==
    /\ pc = "loop"
    /\ food(PState(pos, eaten)) = <<>>
    /\ ret' = RetOk(v)
    /\ pc' = "done"
    /\ UNCHANGED <<doc, pos, eaten, v, rec, cursor_arg, call>>

\* the loop body, as a loop that takes the marker as optional would have it
Splitter_Lenient ==
    /\ pc = "loop"
    /\ food(PState(pos, eaten)) # <<>>
    /\ LET a == Opt(inv(PState(pos, eaten), "ZeroMore"))
           m == seq(a, <<"-", "-", "-">>)
           d == eat(Opt(gap(m.p))).p
       IN  /\ pos' = d.pos
           /\ eaten' = d.eaten
           /\ pc' = "doc"
           /\ ret' = ret
    /\ UNCHANGED <<doc, v, rec, cursor_arg, call>>

\* the loop body, as a loop that rejects a marker with nothing after it
\* would have it
Splitter_EmptyBody ==
    /\ pc = "loop"
    /\ food(PState(pos, eaten)) # <<>>
    /\ LET a == Opt(inv(PState(pos, eaten), "ZeroMore"))
           m == seq(a, <<"-", "-", "-">>)
           d == eat(Opt(gap(m.p))).p
       IN  IF m.ok /\ d.pos < Len(doc)
           THEN /\ pos' = d.pos
                /\ eaten' = d.eaten
                /\ pc' = "doc"
                /\ ret' = ret
           ELSE /\ pos' = (IF m.ok THEN d.pos ELSE m.p.pos)
                /\ eaten' = (IF m.ok THEN d.eaten ELSE m.p.eaten)
                /\ pc' = "done"
                /\ ret' = RetErr(IF m.ok THEN d.pos ELSE m.p.pos, "splitter")
    /\ UNCHANGED <<doc, v, rec, cursor_arg, call>>

\* the loop body down to self.eat(); i is the offset of the first character
\* of a fresh char_indices(), which is 0
Splitter ==
    /\ pc = "loop"
    /\ food(PState(pos, eaten)) # <<>>
    /\ LET i == 0
           a == Opt(inv(PState(pos + i, eaten), "ZeroMore"))
           m == seq(a, <<"-", "-", "-">>)
           d == eat(Opt(gap(m.p))).p
       IN  IF m.ok
           THEN /\ pos' = d.pos
                /\ eaten' = d.eaten
                /\ pc' = "doc"
                /\ ret' = ret
           ELSE /\ pos' = m.p.pos
                /\ eaten' = m.p.eaten
                /\ pc' = "done"
                /\ ret' = RetErr(m.p.pos, "splitter")
    /\ UNCHANGED <<doc, v, rec, cursor_arg, call>>

Next == WithCursor \/ Prefix \/ Doc \/ LoopExit \/ Splitter

Spec == Init /\ [][Next]_vars

\* parse is sequential code that runs to completion: a step that can be
\* taken is taken
FairSpec == InitWith(LiveInputs) /\ [][Next]_vars /\ WF_vars(Next)

(***************************************************************************)
(* Properties of the parser.                                               *)
(***************************************************************************)
\* the character boundaries of doc at or after p, found by walking it
\* character by character
RECURSIVE BoundariesFrom(_)
BoundariesFrom(p) ==
    IF p >= Len(doc) THEN {p} ELSE {p} \cup BoundariesFrom(p + CharLen(doc[p + 1]))

Boundaries == BoundariesFrom(0)

\* the end of the run of separators that starts at p
SepEnd(p) ==
    CHOOSE q \in p..Len(doc) :
        /\ \A i \in (p + 1)..q : doc[i] \in WS
        /\ q = Len(doc) \/ doc[q + 1] \notin WS

\* the bytes at offset q are the document-start marker
MarkerAt(q) ==
    /\ q + 3 <= Len(doc)
    /\ \A i \in (q + 1)..(q + 3) : doc[i] = "-"

\* parse(doc): Parser::new(doc).parse() has returned
Parsed0 == pc = "done" /\ cursor_arg = -1

\* C3: parsing an input that is exactly one scalar literal returns Ok with
\* exactly one document: Bool(true) for "true", Bool(false) for "false",
\* Null for "~" and for "null".
C3_SingleScalar ==
    Parsed0 =>
      /\ doc = <<"t","r","u","e">> =>
            ret.kind = "Ok" /\ Len(ret.docs) = 1 /\ ret.docs[1].yaml = YBool(TRUE)
      /\ doc = <<"f","a","l","s","e">> =>
            ret.kind = "Ok" /\ Len(ret.docs) = 1 /\ ret.docs[1].yaml = YBool(FALSE)
      /\ doc \in {<<"~">>, <<"n","u","l","l">>} =>
            ret.kind = "Ok" /\ Len(ret.docs) = 1 /\ ret.docs[1].yaml = YNull

C3_Witness == Parsed0 /\ doc = <<"t","r","u","e">> /\ ret.kind = "Ok"

\* C4: when scalar fails because no alternative matches, the error is
\* Terminate(o, "value") with o the offset scalar recorded after the anchor
\* and type-tag tokens, wherever the failed alternatives got to.
C4_ValueOffset ==
    (pc = "done" /\ ret.kind = "Err" /\ ret.tag = "value") => ret.off = rec

\* an unterminated quoted string after an anchor token
C4_Witness ==
    /\ pc = "done" /\ ret.kind = "Err" /\ ret.tag = "value"
    /\ rec > 0 /\ rec < Len(doc) /\ doc[rec + 1] = QUOTE
    /\ doc[1] = "&"

\* C5: in the document loop, if input remains and `---` does not come after
\* the separator run, full_doc returns Terminate tagged "splitter" at the
\* offset where the marker was required and parses no further document;
\* it returns Ok only when no input remains.
C5_Splitter ==
    /\ [](ret.kind = "Ok" => pos = Len(doc))
    /\ [][(pc = "loop" /\ pos < Len(doc) /\ ~MarkerAt(SepEnd(pos)))
            => (pc' = "done" /\ ret' = RetErr(SepEnd(pos), "splitter") /\ v' = v)]_vars

C5_Witness ==
    /\ pc = "done" /\ ret.kind = "Err" /\ ret.tag = "splitter"
    /\ ret.off > eaten /\ ret.off < Len(doc)

\* a parse that read a document and then a `---` with only white space
\* after it
TrailingMarker ==
    /\ pc = "done"
    /\ Len(v) >= 1
    /\ pos = Len(doc)
    /\ \E q \in 0..(Len(doc) - 3) :
          /\ MarkerAt(q)
          /\ \A i \in (q + 4)..Len(doc) : doc[i] \in WS

\* C6 as stated: a valid document followed by a trailing `---` with no body
\* fails with Terminate tagged "splitter".
C6_Original == TrailingMarker => (ret.kind = "Err" /\ ret.tag = "splitter")

\* C6 amended: a valid document followed by a trailing `---` with no body
\* fails with Terminate tagged "value", raised by scalar at the end of the
\* input.
C6_TrailingMarkerValue == TrailingMarker => ret = RetErr(Len(doc), "value")

C6_Witness == TrailingMarker /\ doc[Len(doc)] = NL /\ ret.kind = "Err"

\* C9: parse terminates on every input; an iteration of the document loop
\* that goes on consumes at least the marker, the loop is left as soon as
\* nothing remains, and an error ends the parse at once.
C9_Terminates ==
    /\ <>(pc = "done")
    /\ [][(pc = "loop" /\ pc' = "doc") => pos' >= pos + 3]_vars
    /\ [][(pc = "loop" /\ pos = Len(doc)) => (pc' = "done" /\ ret'.kind = "Ok")]_vars
    /\ [][ret'.kind = "Err" => pc' = "done"]_vars
    /\ [][pc = "done" => pc' = "done"]_vars

\* a parse that went round the document loop and finished
C9_Witness == pc = "done" /\ Len(v) >= 2

\* C10: eaten <= pos <= len(doc), both on character boundaries, in every
\* state; with_cursor(p) sets both offsets to p when p is a character
\* boundary of doc and changes nothing otherwise.
C10_CursorInvariant ==
    /\ eaten <= pos
    /\ pos <= Len(doc)
    /\ pos \in Boundaries
    /\ eaten \in Boundaries
    /\ pc = "ready" =>
          IF cursor_arg \in Boundaries
          THEN pos = cursor_arg /\ eaten = cursor_arg
          ELSE pos = 0 /\ eaten = 0

\* a parse of a text with a two-byte character, begun past offset 0
C10_Witness ==
    /\ pc = "done"
    /\ \E i \in 1..Len(doc) : doc[i] = ContByte
    /\ cursor_arg > 0 /\ cursor_arg \in Boundaries
    /\ pos > cursor_arg

(***************************************************************************)
(* Node: equality, hashing, indexing and the accessors                     *)
(* (src/src/node.rs).                                                      *)
(***************************************************************************)
DigitStr == <<"0", "1", "2", "3", "4", "5", "6", "7", "8", "9">>

\* usize::to_string
RECURSIVE to_string(_)
to_string(i) ==
    IF i < 10 THEN <<DigitStr[i + 1]>>
    ELSE to_string(i \div 10) \o <<DigitStr[(i % 10) + 1]>>

RECURSIVE YamlEq(_, _), NodeEq(_, _), YamlHash(_), NodeHash(_)

\* impl PartialEq for Node, as a node that also compares the offset would
\* have it
NodeEq_WithPos(n1, n2) == n1.pos = n2.pos /\ YamlEq(n1.yaml, n2.yaml)

\* impl PartialEq for Node
NodeEq(n1, n2) == YamlEq(n1.yaml, n2.yaml)

\* impl Hash for Node: what the node writes to the hasher
NodeHash(n) == YamlHash(n.yaml)

\* the derived equality of Yaml: same variant, equal payload; the nodes of
\* arrays and maps are compared with NodeEq, in order
YamlEq(y1, y2) ==
    /\ y1.k = y2.k
    /\ y1.b = y2.b
    /\ y1.s = y2.s
    /\ Len(y1.items) = Len(y2.items)
    /\ \A i \in 1..Len(y1.items) :
          IF y1.k = "Map"
          THEN /\ NodeEq(y1.items[i][1], y2.items[i][1])
               /\ NodeEq(y1.items[i][2], y2.items[i][2])
          ELSE NodeEq(y1.items[i], y2.items[i])

\* the hashes of the nodes of ns, one after the other
RECURSIVE HashAll(_)
HashAll(ns) == IF ns = <<>> THEN <<>> ELSE NodeHash(Head(ns)) \o HashAll(Tail(ns))

\* the nodes of a map's pairs, keys and values in order
RECURSIVE Flatten(_)
Flatten(items) ==
    IF items = <<>> THEN <<>> ELSE <<Head(items)[1], Head(items)[2]>> \o Flatten(Tail(items))

\* the derived hash of Yaml: the variant, then the payload
YamlHash(y) ==
    <<y.k>> \o
    ( CASE y.k = "Null"  -> <<>>
        [] y.k = "Bool"  -> <<IF y.b THEN "1" ELSE "0">>
        [] y.k = "Array" -> to_string(Len(y.items)) \o <<"#">> \o HashAll(y.items)
        [] y.k = "Map"   -> to_string(Len(y.items)) \o <<"#">> \o HashAll(Flatten(y.items))
        [] OTHER         -> y.s \o <<"$">> )

\* HashSet::insert on a set kept as the sequence of its elements
HashSet_insert(set, n) ==
    IF \E i \in 1..Len(set) : NodeHash(set[i]) = NodeHash(n) /\ NodeEq(set[i], n)
    THEN set
    ELSE Append(set, n)

\* the set that inserting the nodes of ns one after the other builds
RECURSIVE HashSet_of(_)
HashSet_of(ns) ==
    IF ns = <<>> THEN <<>>
    ELSE HashSet_insert(HashSet_of(SubSeq(ns, 1, Len(ns) - 1)), ns[Len(ns)])

\* Map::get: the value of the first pair whose key equals the key by hash
\* and by NodeEq
Map_get(items, key) ==
    IF \E i \in 1..Len(items) :
          NodeHash(items[i][1]) = NodeHash(key) /\ NodeEq(items[i][1], key)
    THEN SomeNode(items[CHOOSE i \in 1..Len(items) :
                          /\ NodeHash(items[i][1]) = NodeHash(key)
                          /\ NodeEq(items[i][1], key)
                          /\ \A j \in 1..(i - 1) : ~NodeEq(items[j][1], key)][2])
    ELSE None

\* Option::unwrap_or
unwrap_or(o, d) == IF o.tag = "Some" THEN o.node ELSE d

\* Index<usize>, as an index that answers a miss with a null node would have
\* it
Index_usize_Null(n, index) ==
    CASE n.yaml.k = "Array" ->
            IF index < Len(n.yaml.items) THEN n.yaml.items[index + 1] ELSE Node_new(YNull)
      [] n.yaml.k = "Map" ->
            unwrap_or(Map_get(n.yaml.items, Node_new(YInt(to_string(index)))), Node_new(YNull))
      [] OTHER -> Node_new(YNull)

\* impl Index<usize> for Node
Index_usize(n, index) ==
    CASE n.yaml.k = "Array" ->
            IF index < Len(n.yaml.items) THEN n.yaml.items[index + 1] ELSE n
      [] n.yaml.k = "Map" ->
            unwrap_or(Map_get(n.yaml.items, Node_new(YInt(to_string(index)))), n)
      [] OTHER -> n

\* impl Index<&str> for Node
Index_str(n, index) ==
    IF n.yaml.k = "Map"
    THEN unwrap_or(Map_get(n.yaml.items, Node_new(YStr(index))), n)
    ELSE n

\* an index is a usize or a &str
IdxU(i) == [t |-> "usize", i |-> i, k |-> <<>>]

IdxS(k) == [t |-> "str", i |-> 0, k |-> k]

Index(n, ix) == IF ix.t = "usize" THEN Index_usize(n, ix.i) ELSE Index_str(n, ix.k)

\* n[ixs[1]][ixs[2]]...
RECURSIVE IndexChain(_, _)
IndexChain(n, ixs) ==
    IF ixs = <<>> THEN n ELSE IndexChain(Index(n, Head(ixs)), Tail(ixs))

(***************************************************************************)
(* The accessors.  str::parse::<N>() is modelled for N = i64 and N = f64;  *)
(* the texts are too short to overflow an i64.                             *)
(***************************************************************************)
IsDigits(s) == s # <<>> /\ \A i \in 1..Len(s) : s[i] \in Digits

DigitVal(c) == CHOOSE d \in 0..9 : DigitStr[d + 1] = c

RECURSIVE ToNum(_)
ToNum(s) == IF s = <<>> THEN 0 ELSE 10 * ToNum(SubSeq(s, 1, Len(s) - 1)) + DigitVal(s[Len(s)])

Signed(s) == s # <<>> /\ s[1] \in {"-", "+"}

Unsigned(s) == IF Signed(s) THEN Tail(s) ELSE s

\* <i64 as FromStr>::from_str
ParseInt(s) ==
    IF IsDigits(Unsigned(s))
    THEN [Out("Some") EXCEPT !.num = IF Signed(s) /\ s[1] = "-"
                                     THEN 0 - ToNum(Unsigned(s))
                                     ELSE ToNum(Unsigned(s))]
    ELSE None

\* the offset of the first "." of s, Len(s) + 1 if it has none
PointAt(s) == CHOOSE i \in 1..(Len(s) + 1) :
                 /\ i = Len(s) + 1 \/ s[i] = "."
                 /\ \A j \in 1..(i - 1) : s[j] # "."

\* <f64 as FromStr>::from_str: the value as its sign, integer digits and
\* fraction digits, or inf, or NaN
ParseFloat(s) ==
    LET u    == Unsigned(s)
        neg  == Signed(s) /\ s[1] = "-"
        ip   == SubSeq(u, 1, PointAt(u) - 1)
        fp   == SubSeq(u, PointAt(u) + 1, Len(u))
        sign == IF neg THEN <<"-">> ELSE <<>>
    IN  IF u \in {<<"i", "n", "f">>, <<"N", "a", "N">>}
        THEN [Out("Some") EXCEPT !.fl = IF u[1] = "N" THEN u ELSE sign \o u]
        ELSE IF /\ ip \o fp # <<>>
                /\ \A i \in 1..Len(ip) : ip[i] \in Digits
                /\ \A i \in 1..Len(fp) : fp[i] \in Digits
             THEN [Out("Some") EXCEPT !.fl = sign \o to_string(ToNum(ip)) \o <<".">> \o fp]
             ELSE None

\* n.parse::<N>() as an Option
from_str(N, s) == IF N = "i64" THEN ParseInt(s) ELSE ParseFloat(s)

\* Node::as_bool
as_bool(n) == IF n.yaml.k = "Bool" THEN [Out("Some") EXCEPT !.b = n.yaml.b] ELSE None

\* as_method!, as a method that unwraps the parse would have it
as_method_Unwrap(n, kinds, N) ==
    IF n.yaml.k \in kinds
    THEN IF from_str(N, n.yaml.s).tag = "Some" THEN from_str(N, n.yaml.s) ELSE Panic
    ELSE None

\* as_method!: fn $id = $ty1 | $ty2 ...
as_method(n, kinds, N) ==
    IF n.yaml.k \in kinds
    THEN IF from_str(N, n.yaml.s).tag = "Some" THEN from_str(N, n.yaml.s) ELSE None
    ELSE None

as_int(n, N) == as_method(n, {"Int"}, N)

as_float(n, N) == as_method(n, {"Float"}, N)

as_number(n, N) == as_method(n, {"Int", "Float"}, N)

\* Node::as_array
as_array(n) == IF n.yaml.k = "Array" THEN [Out("Some") EXCEPT !.arr = n.yaml.items] ELSE None

RECURSIVE get_from_map(_, _), get_from_map_Strict(_, _)

\* get_from_map, as a lookup that gives up on a value that is not a map
\* while keys remain would have it
get_from_map_Strict(m, keys) ==
    IF keys = <<>> THEN Panic
    ELSE LET key == Node_new(YStr(keys[1]))
             o   == Map_get(m, key)
         IN  IF o.tag = "Some"
             THEN IF Tail(keys) = <<>> THEN o
                  ELSE IF o.node.yaml.k = "Map"
                       THEN get_from_map_Strict(o.node.yaml.items, Tail(keys))
                       ELSE None
             ELSE None

\* get_from_map(m, keys): m is the map's pairs
get_from_map(m, keys) ==
    IF keys = <<>> THEN Panic
    ELSE LET key == Node_new(YStr(keys[1]))
             o   == Map_get(m, key)
         IN  IF o.tag = "Some"
             THEN IF o.node.yaml.k = "Map"
                  THEN IF Tail(keys) = <<>>
                       THEN o
                       ELSE get_from_map(o.node.yaml.items, Tail(keys))
                  ELSE o
             ELSE None

\* Node::as_get
as_get(n, keys) ==
    IF n.yaml.k = "Map" THEN get_from_map(n.yaml.items, keys) ELSE None

\* Option::ok_or, a panic passing through
ok_or(o, e) ==
    CASE o.tag = "Some" -> OkNode(o.node)
      [] o.tag = "None" -> Err(e)
      [] OTHER -> o

\* Node::except_get
except_get(n, keys, e) ==
    IF n.yaml.k = "Map" THEN ok_or(get_from_map(n.yaml.items, keys), e) ELSE Err(e)

(***************************************************************************)
(* The nodes the operations of Node are applied to.                        *)
(***************************************************************************)
Ka == <<"a">>

Kb == <<"b">>

Kc == <<"c">>

Kd == <<"d">>

Keys == {Ka, Kb, Kc, Kd}

\* node!(x) with an offset, a tag and an anchor of its own
At(yaml, p) == mkNode(yaml, p, <<"t">>, <<"a">>)

\* [123, 321, 1234567]
JsonArray ==
    YArray(<<At(YInt(<<"1","2","3">>), 9), At(YInt(<<"3","2","1">>), 14),
             At(YInt(<<"1","2","3","4","5","6","7">>), 19)>>)

\* {"a": "b", "c": [123, 321, 1234567]} of TEST_JSON
JsonMap ==
    YMap(<<  <<At(YStr(Ka), 11), At(YStr(Kb), 16)>>,
             <<At(YStr(Kc), 25), At(JsonArray, 30)>>  >>)

InnerMap ==
    YMap(<<  <<At(YStr(Kb), 3), At(YInt(<<"1">>), 4)>>,
             <<At(YStr(Kc), 5), Node_new(YMap(<<>>))>>  >>)

\* {a: {b: 1, c: {}}, d: {a: {b: 1, c: {}}}, 1: x}
DeepMap ==
    YMap(<<  <<At(YStr(Ka), 1), At(InnerMap, 2)>>,
             <<Node_new(YStr(Kd)), At(YMap(<< <<At(YStr(Ka), 7), At(InnerMap, 8)>> >>), 6)>>,
             <<At(YInt(<<"1">>), 9), Node_new(YStr(<<"x">>))>>  >>)

\* two arrays that differ only in the offset and tag of their element
ArrayPlain == YArray(<<Node_new(YStr(Ka))>>)

ArrayTagged == YArray(<<At(YStr(Ka), 3)>>)

Yamls ==
    { YNull, YBool(TRUE), YInt(<<"1","2">>), YFloat(<<"1",".","5">>),
      YFloat(<<"-","i","n","f">>), YStr(Ka), YStr(Kb), YAnchor(Ka),
      ArrayPlain, ArrayTagged, JsonArray, JsonMap, InnerMap, DeepMap }

\* Node::new(y).pos(p).ty(t).anchor(a)
Nodes ==
    { Node_anchor(Node_ty(Node_pos(Node_new(y), p), t), a) :
        y \in Yamls, p \in 0..MaxPos, t \in {<<>>, <<"t">>}, a \in {<<>>, <<"a">>} }

\* the nodes put into hash sets
InsNodes == {Node_pos(Node_new(YStr(Ka)), p) : p \in 0..MaxPos} \cup {Node_new(YStr(Kb))}

SeqsUpTo(S, lo, hi) == UNION {[1..k -> S] : k \in lo..hi}

Indices == {IdxU(i) : i \in 0..MaxIndex} \cup {IdxS(k) : k \in Keys}

NumTypes == {"i64", "f64"}

(***************************************************************************)
(* The operations of Node as a state machine: a behaviour makes one call   *)
(* and records it with its arguments and its result.                       *)
(***************************************************************************)
NodeInit ==
    /\ doc = <<>>
    /\ pos = 0
    /\ eaten = 0
    /\ pc = "idle"
    /\ v = <<>>
    /\ ret = NoRet
    /\ rec = 0
    /\ cursor_arg = -1
    /\ call = NoCall

\* n == m, hash(n), hash(m)
Eq ==
    /\ call.op = "none"
    /\ \E n \in Nodes, m \in Nodes :
          call' = [Call("eq", n, [Out("Bool") EXCEPT !.b = NodeEq(n, m)])
                     EXCEPT !.m = m, !.h1 = NodeHash(n), !.h2 = NodeHash(m)]
    /\ UNCHANGED parserVars

\* a HashSet built by inserting nodes one after the other
HashSetInsert ==
    /\ call.op = "none"
    /\ \E ns \in SeqsUpTo(InsNodes, 0, MaxIns) :
          call' = [Call("hashset", NoNode, None) EXCEPT !.ns = ns, !.set = HashSet_of(ns)]
    /\ UNCHANGED parserVars

\* n[i], n[i][j], ...
IndexOp ==
    /\ call.op = "none"
    /\ \E n \in Nodes, ixs \in SeqsUpTo(Indices, 1, MaxChain) :
          call' = [Call("index", n, Out("Ref")) EXCEPT !.ixs = ixs, !.outn = IndexChain(n, ixs)]
    /\ UNCHANGED parserVars

AsBool ==
    /\ call.op = "none"
    /\ \E n \in Nodes : call' = Call("as_bool", n, as_bool(n))
    /\ UNCHANGED parserVars

AsInt ==
    /\ call.op = "none"
    /\ \E n \in Nodes, N \in NumTypes :
          call' = [Call("as_int", n, as_int(n, N)) EXCEPT !.N = N]
    /\ UNCHANGED parserVars

AsFloat ==
    /\ call.op = "none"
    /\ \E n \in Nodes, N \in NumTypes :
          call' = [Call("as_float", n, as_float(n, N)) EXCEPT !.N = N]
    /\ UNCHANGED parserVars

AsNumber ==
    /\ call.op = "none"
    /\ \E n \in Nodes, N \in NumTypes :
          call' = [Call("as_number", n, as_number(n, N)) EXCEPT !.N = N]
    /\ UNCHANGED parserVars

AsArray ==
    /\ call.op = "none"
    /\ \E n \in Nodes : call' = Call("as_array", n, as_array(n))
    /\ UNCHANGED parserVars

AsGet ==
    /\ call.op = "none"
    /\ \E n \in Nodes, keys \in SeqsUpTo(Keys, 0, MaxKeys) :
          call' = [Call("as_get", n, as_get(n, keys)) EXCEPT !.keys = keys]
    /\ UNCHANGED parserVars

ExceptGet ==
    /\ call.op = "none"
    /\ \E n \in Nodes, keys \in SeqsUpTo(Keys, 0, MaxKeys), e \in {"no such key"} :
          call' = [Call("except_get", n, except_get(n, keys, e)) EXCEPT !.keys = keys, !.e = e]
    /\ UNCHANGED parserVars

NodeNext ==
    \/ Eq \/ HashSetInsert \/ IndexOp
    \/ AsBool \/ AsInt \/ AsFloat \/ AsNumber \/ AsArray \/ AsGet \/ ExceptGet

NodeSpec == NodeInit /\ [][NodeNext]_vars

(***************************************************************************)
(* Properties of Node.                                                     *)
(***************************************************************************)
\* the value with the offset, tag and anchor of every node inside it erased
RECURSIVE Strip(_)
Strip(y) ==
    [y EXCEPT !.items =
        [i \in 1..Len(y.items) |->
            IF y.k = "Map"
            THEN <<Node_new(Strip(y.items[i][1].yaml)), Node_new(Strip(y.items[i][2].yaml))>>
            ELSE Node_new(Strip(y.items[i].yaml))]]

\* two values are the same value
Same(y1, y2) == Strip(y1) = Strip(y2)

\* C1: equality and hashing of nodes depend only on the value: nodes with
\* the same value are equal and have equal hashes whatever their pos, ty and
\* anchor, nodes with different values are unequal, and a hash set of nodes
\* of one value holds one element.
C1_ValueOnly ==
    /\ call.op = "eq" =>
          IF Same(call.n.yaml, call.m.yaml)
          THEN call.out.b /\ call.h1 = call.h2
          ELSE ~call.out.b
    /\ (/\ call.op = "hashset"
        /\ call.ns # <<>>
        /\ \A i, j \in 1..Len(call.ns) : Same(call.ns[i].yaml, call.ns[j].yaml))
          => Len(call.set) = 1

\* the HashSet of the doc test: one value inserted at three offsets
C1_Witness ==
    /\ call.op = "hashset"
    /\ Len(call.ns) = 3
    /\ \A i, j \in 1..3 : i # j => call.ns[i].pos # call.ns[j].pos
    /\ \A i \in 1..3 : call.ns[i].yaml = YStr(Ka)
    /\ Len(call.set) = 1

\* the map has a pair whose key is the value y
HasKey(items, y) == \E i \in 1..Len(items) : Same(items[i][1].yaml, y)

\* indexing n by ix finds nothing
Miss(n, ix) ==
    \/ n.yaml.k \notin {"Array", "Map"}
    \/ n.yaml.k = "Array" /\ ix.t = "str"
    \/ n.yaml.k = "Array" /\ ix.t = "usize" /\ ix.i >= Len(n.yaml.items)
    \/ n.yaml.k = "Map" /\ ix.t = "str" /\ ~HasKey(n.yaml.items, YStr(ix.k))
    \/ n.yaml.k = "Map" /\ ix.t = "usize" /\ ~HasKey(n.yaml.items, YInt(to_string(ix.i)))

\* C2: indexing that finds nothing returns the node itself, so a chain of
\* indexing on a node that is neither an array nor a map yields that node;
\* indexing never panics.
C2_IndexMiss ==
    call.op = "index" =>
      /\ (Len(call.ixs) = 1 /\ Miss(call.n, call.ixs[1])) => call.outn = call.n
      /\ call.n.yaml.k \notin {"Array", "Map"} => call.outn = call.n
      /\ call.out.tag # "Panic"

\* an integer index that is no key of a map
C2_Witness ==
    /\ call.op = "index"
    /\ Len(call.ixs) = 1
    /\ call.n.yaml = DeepMap
    /\ call.ixs[1] = IdxU(2)
    /\ call.n.pos = 1
    /\ call.outn = call.n

AsOps == {"as_bool", "as_int", "as_float", "as_number", "as_array", "as_get"}

\* the node's variant is one the accessor accepts
Accepts(op, k) ==
    CASE op = "as_bool"   -> k = "Bool"
      [] op = "as_int"    -> k = "Int"
      [] op = "as_float"  -> k = "Float"
      [] op = "as_number" -> k \in {"Int", "Float"}
      [] op = "as_array"  -> k = "Array"
      [] op = "as_get"    -> k = "Map"
      [] OTHER            -> FALSE

Lookup(m, k) ==
    IF m.yaml.k = "Map" /\ HasKey(m.yaml.items, YStr(k))
    THEN [st |-> "found",
          node |-> m.yaml.items[CHOOSE i \in 1..Len(m.yaml.items) :
                                   Same(m.yaml.items[i][1].yaml, YStr(k))][2]]
    ELSE [st |-> "fail", node |-> NoNode]

\* where the descent from n stands after the first i keys: "at" a map with
\* keys still to look up, "ret" with the node to return, or "fail"
RECURSIVE Reach(_, _, _)
Reach(n, keys, i) ==
    IF i = 0
    THEN IF n.yaml.k = "Map" THEN [st |-> "at", node |-> n] ELSE [st |-> "fail", node |-> NoNode]
    ELSE LET prev == Reach(n, keys, i - 1)
             hit  == Lookup(prev.node, keys[i])
         IN  IF prev.st # "at" THEN prev
             ELSE IF hit.st = "fail" THEN hit
             ELSE IF hit.node.yaml.k = "Map" /\ i < Len(keys)
                  THEN [st |-> "at", node |-> hit.node]
                  ELSE [st |-> "ret", node |-> hit.node]

\* C8: as_get / except_get with a non-empty key chain descend through
\* nested maps by Str keys compared by value: a value that is not a map is
\* returned whatever keys remain, a map is descended into while keys remain
\* and returned at the last key; the lookup fails exactly when the receiver
\* is not a Map or a key on the path is absent.  "a" in the map of TEST_JSON
\* gives the Str node "b".
C8_KeyedLookup ==
    (call.op \in {"as_get", "except_get"} /\ call.keys # <<>>) =>
      LET r == Reach(call.n, call.keys, Len(call.keys))
      IN  /\ r.st \in {"ret", "fail"}
          /\ r.st = "ret" =>
                /\ call.out.tag = (IF call.op = "as_get" THEN "Some" ELSE "Ok")
                /\ call.out.node = r.node
          /\ r.st = "fail" =>
                IF call.op = "as_get"
                THEN call.out = None
                ELSE call.out = Err(call.e)
          /\ (call.n.yaml = JsonMap /\ call.keys = <<Ka>>) =>
                call.out.node.yaml = YStr(Kb)

\* a value that is not a map is met while keys remain
C8_Witness ==
    /\ call.op = "as_get"
    /\ call.n.yaml = DeepMap
    /\ call.keys = <<Ka, Kb, Kc>>
    /\ call.out.tag = "Some"
    /\ call.out.node.yaml = YInt(<<"1">>)

====
